---- MODULE Spec2Model ----
(***************************************************************************)
(* The Elements component of the elements inspector                        *)
(* (src/ui/components/elements-inspector/elements.js): the flattening of   *)
(* the element tree into rows (setProps / seed), keyboard navigation       *)
(* (onKeyDown), the per-row presentation facts (buildRow) and the rows     *)
(* themselves (ElementsRow, ElementsRowAttribute, PartialHighlight).       *)
(*                                                                         *)
(* Identities (ElementID, a string in the source) are the numbers          *)
(* 0..NumIds; they stand for distinct non-empty strings.  Identity Ghost   *)
(* is never a key of the store: it is the identity of a node that is       *)
(* referenced (as a child, as the root, as the selection) but absent.      *)
(* Indices are 1-based here and 0-based in the source: IndexOf returns 0   *)
(* where Array.indexOf returns -1.                                         *)
(***************************************************************************)
EXTENDS Integers, Sequences, FiniteSets, TLC

\* Number of nodes the store holds (identities 1..NumIds).
NumIds == 3

\* null / undefined, for a ?ElementID and for an unassigned parentKey.
Null == -1

\* The identity that is never in the store.
Ghost == 0

IDs == 1..NumIds

AllIds == 0..NumIds

\* The call-stack depth at which the recursion of seed is cut off.  A walk
\* deeper than the number of nodes in the store is inside a cycle of expanded
\* nodes, recurs without end and exhausts any finite call stack (RangeError).
StackLimit == NumIds + 1

VARIABLES
  elements,      \* props.elements: the tree store, a function on the present ids
  root,          \* props.root
  selected,      \* props.selected
  searchResults, \* props.searchResults
  flatKeys,      \* state.flatKeys
  flatElements,  \* state.flatElements
  maxDepth,      \* state.maxDepth
  phase,         \* "constructed" | "mounted" | "crashed"
  lastOp,        \* the handler that ran last: "none", "render", a key name, or
                 \* "copy" for the key c pressed as the copy shortcut
  requests,      \* what the last key handler sent out, in order
  threw,         \* the last key handler ended in an exception
  rows,          \* the rows the last render built (buildRow per flat element)
  rowEvent       \* the row and the modifier of the last mouse or menu event

vars == <<elements, root, selected, searchResults, flatKeys, flatElements,
          maxDepth, phase, lastOp, requests, threw, rows, rowEvent>>

props == <<elements, root, selected, searchResults>>

state == <<flatKeys, flatElements, maxDepth>>

outputs == <<lastOp, requests, threw, rows, rowEvent>>

\* Mutant of Max: Math.min.
Max_Min(a, b) == IF a <= b THEN a ELSE b

Max(a, b) == IF a >= b THEN a ELSE b

\* ------------------------------------------------------------------------
\* The tree stores the model ranges over.
\*
\* A node is [id, name, attributes, children, childrenIsNull, expanded]; id,
\* name and attributes are fixed by the node's identity.  children is the
\* stored child list; childrenIsNull says that the field is null/undefined
\* (the source guards for it in seed), in which case children is <<>>.
\*
\* A store is an ordered forest over 1..NumIds, labelled so that a parent's
\* identity is smaller than its children's and siblings ascend (every ordered
\* forest has such a labelling), with at most one defect: one extra reference
\* appended to one child list (to the Ghost, to a node already referenced, or
\* back to an ancestor), or one leaf whose child list is null.
\* ------------------------------------------------------------------------

NameOf(k) == 10 + k

\* Strings that are looked into (names, attribute values, search queries) are
\* sequences of the characters a, A, b, B, c.  A node's name is the number
\* NameOf(k); NameText gives its characters.
Texts == << <<"b", "A", "b">>, <<>>, <<"c">>, <<"a", "B">> >>

NameText(name) == Texts[(name % Len(Texts)) + 1]

\* null for a ?string.
NullString == <<"null">>

\* element.attributes of node k: an id, an addr and another attribute among
\* them; every third node has none.
AttributesOf(k) ==
  IF k % 3 = 1
  THEN << [name |-> "id", value |-> <<"A", "b">>],
          [name |-> "class", value |-> <<"a", "b">>] >>
  ELSE IF k % 3 = 2
  THEN << [name |-> "addr", value |-> <<"B", "a">>] >>
  ELSE <<>>

Parents == { par \in [IDs -> 0..(NumIds - 1)] : \A i \in IDs : par[i] < i }

RECURSIVE AscendingSeq(_)
AscendingSeq(S) ==
  IF S = {} THEN <<>>
  ELSE LET m == CHOOSE x \in S : \A y \in S : x <= y
       IN <<m>> \o AscendingSeq(S \ {m})

NoDefect == [kind |-> "none", at |-> 0, to |-> 0]

Defects ==
  {NoDefect}
    \cup { [kind |-> "extra", at |-> p, to |-> t] : p \in IDs, t \in AllIds }
    \cup { [kind |-> "null", at |-> p, to |-> 0] : p \in IDs }

MkNode(par, d, exp, k) ==
  LET kids == AscendingSeq({ i \in IDs : par[i] = k })
  IN [ id |-> k,
       name |-> NameOf(k),
       attributes |-> AttributesOf(k),
       children |-> IF d.kind = "extra" /\ d.at = k THEN Append(kids, d.to) ELSE kids,
       childrenIsNull |-> (d.kind = "null" /\ d.at = k),
       expanded |-> exp[k] ]

Shapes ==
  { <<par, d>> \in Parents \X Defects :
      d.kind = "null" => \A i \in IDs : par[i] # d.at }

Stores ==
  { [k \in IDs |-> MkNode(sh[1], sh[2], exp, k)] :
      sh \in Shapes, exp \in [IDs -> BOOLEAN] }

Roots == {Null, Ghost, 1, 2}

Selections == {Null} \cup AllIds

\* The stores under a search: the forests without a defect.
SearchStores ==
  { [k \in IDs |-> MkNode(par, NoDefect, exp, k)] :
      par \in Parents, exp \in [IDs -> BOOLEAN] }

\* The selections under a search: none, or the first node.
SearchSelections == {Null, 1}

\* props.searchResults: undefined, or a query with the set of matching ids.
NoSearch == [defined |-> FALSE, query |-> <<>>, matches |-> {}]

Queries == {NullString, <<>>, <<"a">>, <<"A", "B">>}

SearchResultSets ==
  {NoSearch}
    \cup { [defined |-> TRUE, query |-> q, matches |-> m] :
             q \in Queries, m \in SUBSET IDs }

\* ------------------------------------------------------------------------
\* setProps / seed
\* ------------------------------------------------------------------------

EmptyWalk == [flatElements |-> <<>>, flatKeys |-> <<>>, maxDepth |-> 0, overflow |-> FALSE]

\* Mutant of HasVisibleChildren: the expansion flag is not consulted.
HasVisibleChildren_IgnoreExpanded(element) ==
  /\ ~element.childrenIsNull
  /\ Len(element.children) > 0

HasVisibleChildren(element) ==
  /\ ~element.childrenIsNull
  /\ Len(element.children) > 0
  /\ element.expanded

RECURSIVE seed(_, _, _, _)
RECURSIVE seedChildren(_, _, _, _, _)

\* seed(key, level), threading the three locals of setProps it appends to.
seed(els, acc, key, level) ==
  IF acc.overflow THEN acc
  ELSE IF level > StackLimit THEN [acc EXCEPT !.overflow = TRUE]
  ELSE IF key \notin DOMAIN els THEN acc
  ELSE LET element == els[key]
           pushed == [ flatElements |->
                         Append(acc.flatElements,
                                [element |-> element, key |-> key, level |-> level]),
                       flatKeys |-> Append(acc.flatKeys, key),
                       maxDepth |-> Max(acc.maxDepth, level),
                       overflow |-> FALSE ]
       IN IF HasVisibleChildren(element)
          THEN seedChildren(els, pushed, element.children, 1, level + 1)
          ELSE pushed

\* for (const key of element.children) seed(key, level + 1)
seedChildren(els, acc, children, i, level) ==
  IF i > Len(children) \/ acc.overflow THEN acc
  ELSE seedChildren(els, seed(els, acc, children[i], level), children, i + 1, level)

\* Mutant of Flatten: the walk appends to the arrays of the previous pass
\* instead of fresh ones.
Flatten_KeepsOldRows(els, r) ==
  IF r # Null
  THEN seed(els, [flatElements |-> flatElements, flatKeys |-> flatKeys,
                  maxDepth |-> maxDepth, overflow |-> FALSE], r, 1)
  ELSE EmptyWalk

\* The locals of setProps when it reaches setState (or the overflow).
Flatten(els, r) ==
  IF r # Null THEN seed(els, EmptyWalk, r, 1) ELSE EmptyWalk

\* setProps(props): setState with the walk's result; an exception thrown by
\* the walk leaves the state alone and takes the component down.
SetProps(els, r) ==
  LET w == Flatten(els, r)
  IN IF w.overflow
     THEN /\ phase' = "crashed"
          /\ UNCHANGED state
     ELSE /\ phase' = "mounted"
          /\ flatElements' = w.flatElements
          /\ flatKeys' = w.flatKeys
          /\ maxDepth' = w.maxDepth

\* No mouse or menu event.
NoRowEvent == [id |-> Null, altKey |-> FALSE]

NoOutputs ==
  /\ lastOp' = "none"
  /\ requests' = <<>>
  /\ threw' = FALSE
  /\ rows' = <<>>
  /\ rowEvent' = NoRowEvent

Init ==
  /\ elements \in Stores
  /\ root \in Roots
  /\ selected \in Selections
  /\ searchResults = NoSearch
  /\ flatElements = <<>>
  /\ flatKeys = <<>>
  /\ maxDepth = 0
  /\ phase = "constructed"
  /\ lastOp = "none"
  /\ requests = <<>>
  /\ threw = FALSE
  /\ rows = <<>>
  /\ rowEvent = NoRowEvent

componentDidMount ==
  /\ phase = "constructed"
  /\ SetProps(elements, root)
  /\ UNCHANGED props
  /\ NoOutputs

\* Mutant of componentWillReceiveProps: the new props are taken over and the
\* projection is left as it was.
componentWillReceiveProps_NoRebuild(nextElements, nextRoot, nextSelected) ==
  /\ phase = "mounted"
  /\ elements' = nextElements
  /\ root' = nextRoot
  /\ selected' = nextSelected
  /\ UNCHANGED <<searchResults, state, phase>>
  /\ NoOutputs

\* componentWillReceiveProps(nextProps): the host re-rendered the component
\* with nextProps; they become this.props and the projection is rebuilt from
\* them before anything else runs.
componentWillReceiveProps(nextElements, nextRoot, nextSelected) ==
  /\ phase = "mounted"
  /\ elements' = nextElements
  /\ root' = nextRoot
  /\ selected' = nextSelected
  /\ UNCHANGED searchResults
  /\ SetProps(nextElements, nextRoot)
  /\ NoOutputs

\* ------------------------------------------------------------------------
\* The host (the owner of the props).  Each change of the props reaches the
\* component as componentWillReceiveProps.  JavaScript runs one handler to
\* completion at a time: while the outputs of a handler are with the host
\* (lastOp # "none") nothing else starts; the host either applies the
\* requests (HostApply) or drops them (HostIgnore).
\* ------------------------------------------------------------------------

Idle == lastOp = "none"

RemoveAt(s, i) == [j \in 1..(Len(s) - 1) |-> IF j < i THEN s[j] ELSE s[j + 1]]

HostRerender ==
  /\ Idle
  /\ componentWillReceiveProps(elements, root, selected)

HostSetExpanded ==
  /\ Idle
  /\ \E k \in DOMAIN elements :
       componentWillReceiveProps(
         [elements EXCEPT ![k].expanded = ~elements[k].expanded], root, selected)

HostSelect ==
  /\ Idle
  /\ \E s \in Selections \ {selected} :
       componentWillReceiveProps(elements, root, s)

HostSetRoot ==
  /\ Idle
  /\ \E r \in Roots \ {root} :
       componentWillReceiveProps(elements, r, selected)

HostRemoveChild ==
  /\ Idle
  /\ \E p \in DOMAIN elements :
       \E i \in 1..Len(elements[p].children) :
         LET next == [elements EXCEPT ![p].children = RemoveAt(@, i)]
         IN /\ next \in Stores
            /\ componentWillReceiveProps(next, root, selected)

HostAppendChild ==
  /\ Idle
  /\ \E p \in DOMAIN elements :
       \E t \in AllIds :
         LET next == [elements EXCEPT ![p].children = Append(@, t)]
         IN /\ ~elements[p].childrenIsNull
            /\ next \in Stores
            /\ componentWillReceiveProps(next, root, selected)

\* ------------------------------------------------------------------------
\* onKeyDown
\* ------------------------------------------------------------------------

Keys == {"ArrowUp", "ArrowDown", "ArrowLeft", "ArrowRight", "c"}

\* A key event together with process.platform as the handler reads it.
\* The handler reads the modifiers for the key "c" only.
Events ==
  { [key |-> k, metaKey |-> FALSE, ctrlKey |-> FALSE, darwin |-> FALSE] :
      k \in Keys \ {"c"} }
    \cup [key : {"c"}, metaKey : BOOLEAN, ctrlKey : BOOLEAN, darwin : BOOLEAN]

\* What lastOp records of a key event.
OpOf(e) == IF e.key = "c" /\ ((e.metaKey /\ e.darwin) \/ (e.ctrlKey /\ ~e.darwin))
           THEN "copy"
           ELSE e.key

KeyOps == Keys \cup {"copy"}

Request(type, key, deep, text) ==
  [type |-> type, key |-> key, deep |-> deep, text |-> text]

\* this.props.onElementSelected(key)
SelectRequest(key) == Request("select", key, FALSE, Null)

\* props.onElementExpanded(key, deep)
ExpandRequest(key, deep) == Request("setExpanded", key, deep, Null)

\* clipboard.writeText(text)
WriteTextRequest(text) == Request("writeText", Null, FALSE, text)

\* this.props.onElementHovered(key); key is Null on leaving a row.
HoverRequest(key) == Request("hover", key, FALSE, Null)

\* Array.prototype.indexOf: the first index holding x, 0 when there is none.
RECURSIVE IndexOfFrom(_, _, _)
IndexOfFrom(s, x, i) ==
  IF i > Len(s) THEN 0
  ELSE IF s[i] = x THEN i
  ELSE IndexOfFrom(s, x, i + 1)

IndexOf(s, x) == IndexOfFrom(s, x, 1)

\* A key that passes `if (parentKey)`: assigned, and (as every identity here)
\* not the empty string.
Truthy(key) == key # Null

\* Mutant of scanParent: the scan stops one level too high.
RECURSIVE scanParent_OneLevelUp(_, _, _, _)
scanParent_OneLevelUp(fe, fk, i, targetLevel) ==
  IF i < 1 THEN Null
  ELSE IF fe[i].level = targetLevel - 1 THEN fk[i]
  ELSE scanParent_OneLevelUp(fe, fk, i - 1, targetLevel)

\* for (let i = selectedIndex; i >= 0; i--) if (level === targetLevel) ...
RECURSIVE scanParent(_, _, _, _)
scanParent(fe, fk, i, targetLevel) ==
  IF i < 1 THEN Null
  ELSE IF fe[i].level = targetLevel THEN fk[i]
  ELSE scanParent(fe, fk, i - 1, targetLevel)

\* What a handler has done so far: the requests sent, whether it threw and
\* whether it returned.
Running == [requests |-> <<>>, threw |-> FALSE, returned |-> FALSE]

Emit(acc, req) == [acc EXCEPT !.requests = Append(@, req)]

Return(acc) == [acc EXCEPT !.returned = TRUE]

Throw(acc) == [acc EXCEPT !.threw = TRUE, !.returned = TRUE]

IsCopyShortcut(e) ==
  /\ e.key = "c"
  /\ \/ (e.metaKey /\ e.darwin)
     \/ (e.ctrlKey /\ ~e.darwin)

ArrowUpBlock(e, acc, fk, selectedIndex) ==
  IF acc.returned \/ e.key # "ArrowUp" THEN acc
  ELSE IF selectedIndex = 1 \/ Len(fk) = 1 THEN Return(acc)
  ELSE Emit(acc, SelectRequest(fk[selectedIndex - 1]))

\* Mutant of ArrowDownBlock: the row after the next one is selected.
ArrowDownBlock_SkipsOne(e, acc, fk, selectedIndex) ==
  IF acc.returned \/ e.key # "ArrowDown" THEN acc
  ELSE IF selectedIndex = Len(fk) THEN Return(acc)
  ELSE Emit(acc, SelectRequest(
         IF selectedIndex + 2 <= Len(fk) THEN fk[selectedIndex + 2] ELSE Null))

ArrowDownBlock(e, acc, fk, selectedIndex) ==
  IF acc.returned \/ e.key # "ArrowDown" THEN acc
  ELSE IF selectedIndex = Len(fk) THEN Return(acc)
  ELSE Emit(acc, SelectRequest(fk[selectedIndex + 1]))

\* Mutant of ArrowLeftBlock: the jump to the parent is not in an else branch
\* and follows the collapse request.
ArrowLeftBlock_CollapseAndJump(e, acc, fe, fk, sel, selectedIndex, selectedElement) ==
  IF acc.returned \/ e.key # "ArrowLeft" THEN acc
  ELSE LET a1 == IF selectedElement.expanded
                 THEN Emit(acc, ExpandRequest(sel, FALSE))
                 ELSE acc
           targetLevel == fe[selectedIndex].level - 1
           parentKey == scanParent(fe, fk, selectedIndex, targetLevel)
       IN IF Truthy(parentKey) THEN Emit(a1, SelectRequest(parentKey)) ELSE a1

\* Mutant of ArrowLeftBlock: only a node that has children is collapsed.
ArrowLeftBlock_LeafJumps(e, acc, fe, fk, sel, selectedIndex, selectedElement) ==
  IF acc.returned \/ e.key # "ArrowLeft" THEN acc
  ELSE IF selectedElement.expanded /\ Len(selectedElement.children) > 0
       THEN Emit(acc, ExpandRequest(sel, FALSE))
       ELSE LET targetLevel == fe[selectedIndex].level - 1
                parentKey == scanParent(fe, fk, selectedIndex, targetLevel)
            IN IF Truthy(parentKey) THEN Emit(acc, SelectRequest(parentKey)) ELSE acc

ArrowLeftBlock(e, acc, fe, fk, sel, selectedIndex, selectedElement) ==
  IF acc.returned \/ e.key # "ArrowLeft" THEN acc
  ELSE IF selectedElement.expanded
       THEN Emit(acc, ExpandRequest(sel, FALSE))
       ELSE LET targetLevel == fe[selectedIndex].level - 1
                parentKey == scanParent(fe, fk, selectedIndex, targetLevel)
            IN IF Truthy(parentKey) THEN Emit(acc, SelectRequest(parentKey)) ELSE acc

\* e.key === 'ArrowRight' && selectedElement.children.length > 0: reading
\* .length of a null child list throws a TypeError.
ArrowRightBlock(e, acc, sel, selectedElement) ==
  IF acc.returned \/ e.key # "ArrowRight" THEN acc
  ELSE IF selectedElement.childrenIsNull THEN Throw(acc)
  ELSE IF Len(selectedElement.children) > 0
       THEN IF selectedElement.expanded
            THEN Emit(acc, SelectRequest(selectedElement.children[1]))
            ELSE Emit(acc, ExpandRequest(sel, FALSE))
       ELSE acc

\* onKeyDown once the three guards have let the event through: the copy
\* shortcut, then the four arrow blocks one after the other.
Dispatch(e, sel, selectedIndex, selectedElement, fe, fk) ==
  IF IsCopyShortcut(e)
  THEN Return(Emit(Running, WriteTextRequest(selectedElement.name)))
  ELSE LET a1 == ArrowUpBlock(e, Running, fk, selectedIndex)
           a2 == ArrowDownBlock(e, a1, fk, selectedIndex)
           a3 == ArrowLeftBlock(e, a2, fe, fk, sel, selectedIndex, selectedElement)
       IN ArrowRightBlock(e, a3, sel, selectedElement)

\* Mutant of onKeyDown: the selectedIndex guard is missing (shown on
\* ArrowRight, whose block does not read the index).
onKeyDown_NoIndexGuard(e, els, sel, fe, fk) ==
  IF sel = Null THEN Return(Running)
  ELSE IF sel \notin DOMAIN els THEN Return(Running)
  ELSE IF IndexOf(fk, sel) < 1
       THEN ArrowRightBlock(e, Running, sel, els[sel])
       ELSE Dispatch(e, sel, IndexOf(fk, sel), els[sel], fe, fk)

\* The handler, from this.props (els, sel) and this.state (fe, fk).
onKeyDown(e, els, sel, fe, fk) ==
  IF sel = Null THEN Return(Running)
  ELSE LET selectedIndex == IndexOf(fk, sel)
       IN IF selectedIndex < 1 THEN Return(Running)
          ELSE IF sel \notin DOMAIN els THEN Return(Running)
          ELSE Dispatch(e, sel, selectedIndex, els[sel], fe, fk)

\* Mutant of KeyDown: the handler writes the selection it asks for into the
\* props itself.
KeyDown_WritesSelection ==
  \E e \in Events :
    LET done == onKeyDown(e, elements, selected, flatElements, flatKeys)
    IN /\ phase = "mounted"
       /\ Idle
       /\ lastOp' = OpOf(e)
       /\ requests' = done.requests
       /\ threw' = done.threw
       /\ rows' = <<>>
       /\ rowEvent' = NoRowEvent
       /\ selected' = IF done.requests # <<>> /\ done.requests[1].type = "select"
                      THEN done.requests[1].key
                      ELSE selected
       /\ UNCHANGED <<elements, root, searchResults, state, phase>>

\* A key event reaches the container.  The container exists, and key events
\* are dispatched, only once the component is mounted.
KeyDown ==
  \E e \in Events :
    LET done == onKeyDown(e, elements, selected, flatElements, flatKeys)
    IN /\ phase = "mounted"
       /\ Idle
       /\ lastOp' = OpOf(e)
       /\ requests' = done.requests
       /\ threw' = done.threw
       /\ rows' = <<>>
       /\ rowEvent' = NoRowEvent
       /\ UNCHANGED <<props, state, phase>>

\* The key handler on the ArrowLeft key alone.
PressLeft ==
  LET e == CHOOSE ev \in Events : ev.key = "ArrowLeft"
      done == onKeyDown(e, elements, selected, flatElements, flatKeys)
  IN /\ phase = "mounted"
     /\ Idle
     /\ lastOp' = OpOf(e)
     /\ requests' = done.requests
     /\ threw' = done.threw
     /\ rows' = <<>>
     /\ rowEvent' = NoRowEvent
     /\ UNCHANGED <<props, state, phase>>

\* ------------------------------------------------------------------------
\* render / buildRow
\* ------------------------------------------------------------------------

\* defaultProps.alternateRowColor
AlternateRowColor == TRUE

\* Mutant of countChildren: the count runs on over rows of the same level.
RECURSIVE countChildren_PastSiblings(_, _, _, _)
countChildren_PastSiblings(fe, rowLevel, i, childrenCount) ==
  IF i > Len(fe) THEN childrenCount
  ELSE IF fe[i].level < rowLevel THEN childrenCount
  ELSE countChildren_PastSiblings(fe, rowLevel, i + 1, childrenCount + 1)

\* let childrenCount = 0; for (let i = index + 1; ...) { break / ++ }
RECURSIVE countChildren(_, _, _, _)
countChildren(fe, rowLevel, i, childrenCount) ==
  IF i > Len(fe) THEN childrenCount
  ELSE IF fe[i].level <= rowLevel THEN childrenCount
  ELSE countChildren(fe, rowLevel, i + 1, childrenCount + 1)

containsKeyInSearchResults(sr, key) ==
  /\ sr.defined
  /\ key \in sr.matches

\* buildRow(row, index): the props handed to ElementsRow.  index is 1-based.
buildRow(row, index, fe, sel, sr) ==
  [ level |-> row.level,
    id |-> row.key,
    even |-> (AlternateRowColor /\ (index - 1) % 2 = 0),
    selected |-> (sel = row.key),
    matchingSearchQuery |->
      IF containsKeyInSearchResults(sr, row.key) THEN sr.query ELSE NullString,
    isQueryMatch |-> containsKeyInSearchResults(sr, row.key),
    element |-> row.element,
    childrenCount |-> countChildren(fe, row.level, index + 1, 0) ]

\* ------------------------------------------------------------------------
\* ElementsRow, ElementsRowAttribute, PartialHighlight
\* ------------------------------------------------------------------------

Lower(c) == IF c = "A" THEN "a" ELSE IF c = "B" THEN "b" ELSE c

toLowerCase(str) == [i \in 1..Len(str) |-> Lower(str[i])]

\* The 0-based offsets at which sub occurs in str.
Occurrences(str, sub) ==
  { at \in 0..(Len(str) - Len(sub)) : SubSeq(str, at + 1, at + Len(sub)) = sub }

includes(str, sub) == Occurrences(str, sub) # {}

\* String.indexOf, for a sub that occurs in str.
indexOf(str, sub) ==
  CHOOSE at \in Occurrences(str, sub) : \A o \in Occurrences(str, sub) : at <= o

\* PartialHighlight.render: the props and the three spans, or the content in
\* one span.
PartialHighlight(content, highlighted, isSelected) ==
  IF /\ content # <<>>
     /\ highlighted # NullString
     /\ highlighted # <<>>
     /\ includes(toLowerCase(content), toLowerCase(highlighted))
  THEN LET highlightStart == indexOf(toLowerCase(content), toLowerCase(highlighted))
           highlightEnd == highlightStart + Len(highlighted)
       IN [ content |-> content, highlighted |-> highlighted, selected |-> isSelected,
            highlight |-> TRUE,
            before |-> SubSeq(content, 1, highlightStart),
            match |-> SubSeq(content, highlightStart + 1, highlightEnd),
            after |-> SubSeq(content, highlightEnd + 1, Len(content)) ]
  ELSE [ content |-> content, highlighted |-> highlighted, selected |-> isSelected,
         highlight |-> FALSE,
         before |-> content, match |-> <<>>, after |-> <<>> ]

\* Mutant of ElementsRowAttribute: every attribute gets the query.
ElementsRowAttribute_AllNames(name, value, matchingSearchQuery, isSelected) ==
  [ name |-> name,
    value |-> PartialHighlight(value, matchingSearchQuery, isSelected) ]

\* ElementsRowAttribute.render
ElementsRowAttribute(name, value, matchingSearchQuery, isSelected) ==
  [ name |-> name,
    value |-> PartialHighlight(value,
                               IF name = "id" \/ name = "addr"
                               THEN matchingSearchQuery
                               ELSE <<>>,
                               isSelected) ]

\* ElementsRow.render, for the row's props p and its state hovered: the
\* disclosure arrow, the connector line, the name and the attributes.
ElementsRowRender(p, hovered) ==
  LET hasChildren == ~p.element.childrenIsNull /\ Len(p.element.children) > 0
  IN [ arrow |-> hasChildren,
       line |-> ((p.selected \/ hovered) /\ hasChildren /\ p.element.expanded),
       name |-> PartialHighlight(NameText(p.element.name), p.matchingSearchQuery,
                                 p.selected),
       attributes |->
         [j \in 1..Len(p.element.attributes) |->
            ElementsRowAttribute(p.element.attributes[j].name,
                                 p.element.attributes[j].value,
                                 p.matchingSearchQuery, p.selected)] ]

\* A row on the screen: its props, its state and what it rendered.
ElementsRow(p, hovered) ==
  [hovered |-> hovered, view |-> ElementsRowRender(p, hovered)] @@ p

\* render: this.state.flatElements.map(this.buildRow); every row is new and
\* starts with hovered false.
Render ==
  /\ phase # "crashed"
  /\ Idle
  /\ lastOp' = "render"
  /\ rows' = [i \in 1..Len(flatElements) |->
                ElementsRow(buildRow(flatElements[i], i, flatElements, selected,
                                     searchResults),
                            FALSE)]
  /\ requests' = <<>>
  /\ threw' = FALSE
  /\ rowEvent' = NoRowEvent
  /\ UNCHANGED <<props, state, phase>>

\* props.onElementHovered is optional.
OnElementHoveredGiven == TRUE

\* ElementsRow.onClick
onClick(p) == <<SelectRequest(p.id)>>

\* ElementsRow.onDoubleClick(event)
onDoubleClick(p, altKey) == <<ExpandRequest(p.id, altKey)>>

\* Mutant of contextMenuToggle: the menu entry asks for a deep toggle.
contextMenuToggle_Deep(p) == <<ExpandRequest(p.id, TRUE)>>

\* The click of the Expand / Collapse entry of getContextMenu.
contextMenuToggle(p) == <<ExpandRequest(p.id, FALSE)>>

\* name + ' id=' + id, as the number that has the name's number in its
\* hundreds and the id in its units.
CopyText(name, id) == name * 100 + id

\* The click of the Copy entry of getContextMenu.
contextMenuCopy(p) == <<WriteTextRequest(CopyText(p.element.name, p.element.id))>>

\* ElementsRow.onMouseEnter / onMouseLeave, the calls they make.
onMouseEnter(p) == IF OnElementHoveredGiven THEN <<HoverRequest(p.id)>> ELSE <<>>

onMouseLeave(p) == IF OnElementHoveredGiven THEN <<HoverRequest(Null)>> ELSE <<>>

\* A mouse or menu event reaches row i of the last render; the row's handler
\* makes the calls reqs and leaves the row's state hovered at hov.
RowHandler(op, i, altKey, reqs, hov) ==
  /\ lastOp = "render"
  /\ lastOp' = op
  /\ requests' = reqs
  /\ threw' = FALSE
  /\ rowEvent' = [id |-> rows[i].id, altKey |-> altKey]
  /\ rows' = [rows EXCEPT ![i] = ElementsRow(rows[i], hov)]
  /\ UNCHANGED <<props, state, phase>>

RowClick ==
  \E i \in 1..Len(rows) :
    RowHandler("click", i, FALSE, onClick(rows[i]), rows[i].hovered)

RowDoubleClick ==
  \E i \in 1..Len(rows), altKey \in BOOLEAN :
    RowHandler("doubleClick", i, altKey, onDoubleClick(rows[i], altKey),
               rows[i].hovered)

\* A click on the disclosure arrow: the span's onClick is onDoubleClick, and
\* the click then reaches the row container's onClick.
ArrowClick ==
  \E i \in 1..Len(rows), altKey \in BOOLEAN :
    /\ rows[i].view.arrow
    /\ RowHandler("arrowClick", i, altKey,
                  onDoubleClick(rows[i], altKey) \o onClick(rows[i]),
                  rows[i].hovered)

MenuToggle ==
  \E i \in 1..Len(rows) :
    RowHandler("menuToggle", i, FALSE, contextMenuToggle(rows[i]), rows[i].hovered)

MenuCopy ==
  \E i \in 1..Len(rows) :
    RowHandler("menuCopy", i, FALSE, contextMenuCopy(rows[i]), rows[i].hovered)

MouseEnter ==
  \E i \in 1..Len(rows) :
    RowHandler("mouseEnter", i, FALSE, onMouseEnter(rows[i]), TRUE)

MouseLeave ==
  \E i \in 1..Len(rows) :
    RowHandler("mouseLeave", i, FALSE, onMouseLeave(rows[i]), FALSE)

\* ------------------------------------------------------------------------
\* The host's answer to a handler's outputs.
\* ------------------------------------------------------------------------

\* The nodes of the store reachable from the nodes in seen.
RECURSIVE Subtree(_, _)
Subtree(els, seen) ==
  LET more == { c \in DOMAIN els :
                  \E k \in seen :
                    \E j \in 1..Len(els[k].children) : els[k].children[j] = c }
  IN IF more \subseteq seen THEN seen ELSE Subtree(els, seen \cup more)

\* The props after the host has carried out one request: select replaces the
\* selection, setExpanded flips the node's expansion flag and, when deep,
\* gives the new flag to every node below it; hover and writeText leave the
\* props alone.
ApplyRequest(p, req) ==
  IF req.type = "select" THEN [p EXCEPT !.selected = req.key]
  ELSE IF req.type = "setExpanded" /\ req.key \in DOMAIN p.elements
       THEN LET flag == ~p.elements[req.key].expanded
                hit == IF req.deep THEN Subtree(p.elements, {req.key}) ELSE {req.key}
            IN [p EXCEPT !.elements =
                  [k \in DOMAIN p.elements |->
                     IF k \in hit THEN [p.elements[k] EXCEPT !.expanded = flag]
                     ELSE p.elements[k]]]
  ELSE p

RECURSIVE ApplyRequests(_, _, _)
ApplyRequests(p, reqs, i) ==
  IF i > Len(reqs) THEN p
  ELSE ApplyRequests(ApplyRequest(p, reqs[i]), reqs, i + 1)

\* The host carries out the requests of the last key handler and re-renders.
HostApply ==
  /\ ~Idle
  /\ requests # <<>>
  /\ LET p == ApplyRequests([elements |-> elements, root |-> root,
                             selected |-> selected], requests, 1)
     IN componentWillReceiveProps(p.elements, p.root, p.selected)

\* The host takes the outputs and changes nothing.
HostIgnore ==
  /\ ~Idle
  /\ NoOutputs
  /\ UNCHANGED <<props, state, phase>>

Next ==
  \/ componentDidMount
  \/ HostRerender
  \/ HostSetExpanded
  \/ HostSelect
  \/ HostSetRoot
  \/ HostRemoveChild
  \/ HostAppendChild
  \/ KeyDown
  \/ Render
  \/ HostApply
  \/ HostIgnore

Spec == Init /\ [][Next]_vars

\* The component with its rows: key input, and mouse and menu input on the
\* rows of the last render.
NextRows ==
  \/ componentDidMount
  \/ KeyDown
  \/ Render
  \/ RowClick
  \/ RowDoubleClick
  \/ ArrowClick
  \/ MenuToggle
  \/ MenuCopy
  \/ MouseEnter
  \/ MouseLeave
  \/ HostApply
  \/ HostIgnore

SpecRows == Init /\ [][NextRows]_vars

\* The component under a search: the host hands in searchResults, which change
\* while the tree stays as it is.
InitSearch ==
  /\ elements \in SearchStores
  /\ root \in Roots
  /\ selected \in SearchSelections
  /\ searchResults \in SearchResultSets
  /\ flatElements = <<>>
  /\ flatKeys = <<>>
  /\ maxDepth = 0
  /\ phase = "constructed"
  /\ lastOp = "none"
  /\ requests = <<>>
  /\ threw = FALSE
  /\ rows = <<>>
  /\ rowEvent = NoRowEvent

\* componentWillReceiveProps with new searchResults.
HostSearch ==
  /\ Idle
  /\ phase = "mounted"
  /\ \E sr \in SearchResultSets \ {searchResults} : searchResults' = sr
  /\ UNCHANGED <<elements, root, selected>>
  /\ SetProps(elements, root)
  /\ NoOutputs

NextSearch ==
  \/ componentDidMount
  \/ HostSearch
  \/ Render
  \/ HostIgnore

SpecSearch == InitSearch /\ [][NextSearch]_vars

\* A key handler that asked for nothing returns to the host.
HostAck ==
  /\ requests = <<>>
  /\ HostIgnore

\* The component under a host that carries out every request, re-renders, and
\* changes nothing else, while the user keeps pressing ArrowLeft.
NextLeft ==
  \/ componentDidMount
  \/ PressLeft
  \/ HostApply
  \/ HostAck

SpecLeft ==
  /\ Init
  /\ [][NextLeft]_vars
  /\ WF_vars(PressLeft)
  /\ WF_vars(HostApply)
  /\ WF_vars(HostAck)

\* ------------------------------------------------------------------------
\* Properties
\* ------------------------------------------------------------------------

SelectedIndex == IndexOf(flatKeys, selected)

\* The selection passes the three guards of onKeyDown.
Navigable ==
  /\ selected # Null
  /\ SelectedIndex >= 1
  /\ selected \in DOMAIN elements

ArrowKeys == {"ArrowUp", "ArrowDown", "ArrowLeft", "ArrowRight"}

\* The first row after row i that is not below it (Len + 1 when there is none).
BlockEnd(fe, i) ==
  LET after == { j \in (i + 1)..Len(fe) : fe[j].level <= fe[i].level }
  IN IF after = {} THEN Len(fe) + 1
     ELSE CHOOSE j \in after : \A k \in after : j <= k

\* The identities of the rows directly below row i, in row order.
DirectChildKeys(fe, i) ==
  LET below == SubSeq(fe, i + 1, BlockEnd(fe, i) - 1)
      direct == SelectSeq(below, LAMBDA r : r.level = fe[i].level + 1)
  IN [j \in 1..Len(direct) |-> direct[j].key]

\* The children a pre-order walk descends into: the stored child list without
\* the identities absent from the store, if the node has a child and is
\* expanded, and none otherwise.
WalkedChildren(els, node) ==
  IF ~node.childrenIsNull /\ Len(node.children) > 0 /\ node.expanded
  THEN SelectSeq(node.children, LAMBDA k : k \in DOMAIN els)
  ELSE <<>>

IsPreorder(els, r, fe) ==
  IF r = Null \/ r \notin DOMAIN els
  THEN fe = <<>>
  ELSE /\ Len(fe) >= 1
       /\ fe[1].key = r
       /\ fe[1].level = 1
       /\ \A i \in 2..Len(fe) :
            /\ fe[i].level >= 2
            /\ fe[i].level <= fe[i - 1].level + 1
       /\ \A i \in 1..Len(fe) :
            /\ fe[i].key \in DOMAIN els
            /\ DirectChildKeys(fe, i) = WalkedChildren(els, els[fe[i].key])

\* C1: the projection setProps builds is the pre-order traversal from the
\* root: the root row has level 1; below each row come, one level deeper and
\* in child-list order, exactly the children of its node that are in the
\* store, if the node has a child and is expanded, and nothing otherwise.
C1_FlattenIsPreorder ==
  phase = "mounted" => IsPreorder(elements, root, flatElements)

\* C1 witness: a projection with a row whose expanded node references the
\* absent identity and a row whose node has children and is collapsed.
C1_Witness ==
  /\ phase = "mounted"
  /\ Len(flatElements) >= 2
  /\ \E i \in 1..Len(flatElements) :
       /\ flatElements[i].element.expanded
       /\ \E c \in 1..Len(flatElements[i].element.children) :
            flatElements[i].element.children[c] = Ghost
  /\ \E i \in 1..Len(flatElements) :
       /\ ~flatElements[i].element.expanded
       /\ Len(flatElements[i].element.children) > 0

\* C2 (as claimed): no identity appears twice in flatKeys, whatever the store.
C2_NoIdentityTwice ==
  phase = "mounted" =>
    \A i, j \in 1..Len(flatKeys) : flatKeys[i] = flatKeys[j] => i = j

\* C3 (as claimed): every flatten pass ends in setState, whatever the store;
\* the walk never runs out of call stack.
C3_FlattenReachesSetState ==
  phase # "crashed"

\* C4: when a key handler or a row presentation reads the projection, it is
\* the flattening of the current store from the current root.
C4_ProjectionFreshAtRead ==
  (lastOp \in KeyOps \/ (lastOp = "render" /\ rows # <<>>)) =>
    LET w == Flatten(elements, root)
    IN /\ ~w.overflow
       /\ flatKeys = w.flatKeys
       /\ flatElements = w.flatElements
       /\ maxDepth = w.maxDepth

\* C4 witness: a key handler has read a projection of three rows and answered.
C4_Witness ==
  /\ lastOp \in KeyOps
  /\ Len(flatKeys) >= 3
  /\ requests # <<>>

\* C5: with the selection at index i, ArrowUp sends select(flatKeys[i-1]) if
\* i is not the first index and nothing otherwise; ArrowDown sends
\* select(flatKeys[i+1]) if i is not the last index and nothing otherwise; no
\* other request is sent.
C5_MovePreviousNext ==
  Navigable =>
    /\ lastOp = "ArrowUp" =>
         /\ ~threw
         /\ requests = IF SelectedIndex > 1
                       THEN <<SelectRequest(flatKeys[SelectedIndex - 1])>>
                       ELSE <<>>
    /\ lastOp = "ArrowDown" =>
         /\ ~threw
         /\ requests = IF SelectedIndex < Len(flatKeys)
                       THEN <<SelectRequest(flatKeys[SelectedIndex + 1])>>
                       ELSE <<>>

\* C5 witness: ArrowDown on a row that has a row before it and one after it.
C5_Witness ==
  /\ Navigable
  /\ lastOp = "ArrowDown"
  /\ SelectedIndex > 1
  /\ SelectedIndex < Len(flatKeys)
  /\ Len(requests) = 1

\* The rows before row i that are one level above it.
RowsOneLevelUp(fe, i) == { j \in 1..(i - 1) : fe[j].level = fe[i].level - 1 }

\* C6: ArrowLeft on a selected row whose node is not expanded sends select(p),
\* p the nearest preceding row one level up, and the selection is in p's child
\* list; on the level-1 row it sends nothing.
C6_GoToParent ==
  (Navigable /\ lastOp = "ArrowLeft" /\ ~elements[selected].expanded) =>
    /\ ~threw
    /\ IF flatElements[SelectedIndex].level = 1
       THEN requests = <<>>
       ELSE LET up == RowsOneLevelUp(flatElements, SelectedIndex)
            IN /\ up # {}
               /\ LET j == CHOOSE x \in up : \A y \in up : y <= x
                      p == flatKeys[j]
                  IN /\ requests = <<SelectRequest(p)>>
                     /\ p \in DOMAIN elements
                     /\ \E c \in 1..Len(elements[p].children) :
                          elements[p].children[c] = selected

\* C6 witness: ArrowLeft on a collapsed row of level 3 has sent a select.
C6_Witness ==
  /\ Navigable
  /\ lastOp = "ArrowLeft"
  /\ ~elements[selected].expanded
  /\ flatElements[SelectedIndex].level = 3
  /\ Len(requests) = 1

\* C7 (as claimed): ArrowRight sends select(first child) if the node has a
\* child and is expanded, setExpanded(selected, false) if it has a child and
\* is not expanded, and nothing, without failing, if it has no children.
C7_ExpandOrGoToChild ==
  (Navigable /\ lastOp = "ArrowRight") =>
    LET node == elements[selected]
        hasChild == ~node.childrenIsNull /\ Len(node.children) > 0
    IN /\ ~threw
       /\ requests = IF hasChild /\ node.expanded
                     THEN <<SelectRequest(node.children[1])>>
                     ELSE IF hasChild
                          THEN <<ExpandRequest(selected, FALSE)>>
                          ELSE <<>>

\* C8: ArrowLeft on a selected row whose node is expanded sends exactly
\* setExpanded(selected, false), with or without children.
C8_CollapseExpanded ==
  (Navigable /\ lastOp = "ArrowLeft" /\ elements[selected].expanded) =>
    /\ ~threw
    /\ requests = <<ExpandRequest(selected, FALSE)>>

\* C8 witness: ArrowLeft on an expanded node without children.
C8_Witness ==
  /\ Navigable
  /\ lastOp = "ArrowLeft"
  /\ elements[selected].expanded
  /\ Len(elements[selected].children) = 0
  /\ Len(requests) = 1

\* C9: without a selection, or with a selection that is not in the projection
\* or not in the store, the four arrow keys send nothing and raise nothing.
C9_NoSelectionNoRequest ==
  (lastOp \in ArrowKeys /\ ~Navigable) =>
    /\ requests = <<>>
    /\ ~threw

\* C9 witness: ArrowRight with a selected node that is in the store, has
\* children and is not in the projection.
C9_Witness ==
  /\ lastOp = "ArrowRight"
  /\ selected \in DOMAIN elements
  /\ Len(elements[selected].children) > 0
  /\ SelectedIndex = 0
  /\ flatKeys # <<>>

\* The number of rows a pre-order walk makes of the node k and what is
\* visible below it.
RECURSIVE VisibleSize(_, _)
RECURSIVE VisibleSizeOfAll(_, _, _)
VisibleSize(els, k) ==
  IF k \notin DOMAIN els THEN 0
  ELSE 1 + VisibleSizeOfAll(els, WalkedChildren(els, els[k]), 1)

VisibleSizeOfAll(els, kids, i) ==
  IF i > Len(kids) THEN 0
  ELSE VisibleSize(els, kids[i]) + VisibleSizeOfAll(els, kids, i + 1)

\* C10: childrenCount of a row is the number of rows below its node in the
\* visible expanded subtree; it is 0 for a collapsed node and for a leaf.
C10_ChildrenCount ==
  lastOp = "render" =>
    \A i \in 1..Len(rows) :
      /\ rows[i].childrenCount = VisibleSize(elements, rows[i].id) - 1
      /\ (~rows[i].element.expanded \/ Len(rows[i].element.children) = 0)
           => rows[i].childrenCount = 0

\* C10 witness: a rendered row with two rows below it, followed by a row of
\* its own level.
C10_Witness ==
  /\ lastOp = "render"
  /\ \E i \in 1..Len(rows) :
       /\ rows[i].childrenCount >= 1
       /\ i + rows[i].childrenCount < Len(rows)
       /\ rows[i + rows[i].childrenCount + 1].level = rows[i].level

\* The first row of fe whose key is n (0 when there is none).
IndexOfKey(fe, n) == IndexOf([i \in 1..Len(fe) |-> fe[i].key], n)

\* childrenCount of every row of fe, as buildRow computes it.
ChildrenCounts(fe) ==
  [i \in 1..Len(fe) |-> countChildren(fe, fe[i].level, i + 1, 0)]

\* Row i lies below a row of the node n.
BelowNode(fe, n, i) ==
  \E j \in 1..(i - 1) : fe[j].key = n /\ i < BlockEnd(fe, j)

\* The rows of fe below row i that lie below a row of n.
RemovedBelow(fe, n, i) ==
  { k \in (i + 1)..(BlockEnd(fe, i) - 1) : BelowNode(fe, n, k) }

NoRepeatedKey(fe) ==
  \A i, j \in 1..Len(fe) : fe[i].key = fe[j].key => i = j

\* What a rebuild after collapsing n makes of the projection old: new is old
\* without the rows below n, the other rows in their order with their
\* levels; each remaining row's childrenCount has dropped by the number of
\* removed rows that were below it, and is 0 for n.  Where no identity is
\* repeated, every row above n has lost all the removed rows.
CollapsedFrom(old, new, n) ==
  LET kept == AscendingSeq({ i \in 1..Len(old) : ~BelowNode(old, n, i) })
      before == ChildrenCounts(old)
      after == ChildrenCounts(new)
  IN /\ Len(new) = Len(kept)
     /\ Len(new) < Len(old) <=> \E i \in 1..Len(old) : old[i].key = n /\ before[i] > 0
     /\ \A m \in 1..Len(kept) :
          /\ new[m].key = old[kept[m]].key
          /\ new[m].level = old[kept[m]].level
          /\ after[m] = before[kept[m]] - Cardinality(RemovedBelow(old, n, kept[m]))
          /\ new[m].key = n => after[m] = 0
          /\ (NoRepeatedKey(old) /\ BelowNode(old, old[kept[m]].key, IndexOfKey(old, n)))
               => after[m] = before[kept[m]] - (Len(old) - Len(new))

\* A step that sets the expansion flag of the visible node n to false and
\* changes nothing else of the store or the root.
CollapseOf(n) ==
  /\ phase = "mounted"
  /\ n \in DOMAIN elements
  /\ elements[n].expanded
  /\ IndexOf(flatKeys, n) >= 1
  /\ elements' = [elements EXCEPT ![n].expanded = FALSE]
  /\ root' = root

C12_FlattenIdempotent ==
  [][(phase = "mounted" /\ lastOp = "none" /\ lastOp' = "none"
        /\ elements' = elements /\ root' = root)
       => (phase' = "mounted" /\ UNCHANGED state)]_vars

\* C12 witness: a projection of three rows over two levels that a further
\* pass can be run on.
C12_Witness ==
  /\ phase = "mounted"
  /\ lastOp = "none"
  /\ Len(flatKeys) >= 3
  /\ maxDepth >= 2

RequestTypes == {"select", "setExpanded", "writeText", "hover"}

\* C13: the flatten pass at mount, every key input and every render leave the
\* store and the selection as they are; what they send are select,
\* setExpanded and hover requests and clipboard text.
C13_CoreLeavesStoreAlone ==
  [][(phase = "constructed" \/ lastOp' # "none")
       => /\ UNCHANGED <<elements, selected>>
          /\ \A i \in 1..Len(requests') : requests'[i].type \in RequestTypes]_vars

\* C13 witness: a key handler has asked for another selection and the
\* selection is still the old one.
C13_Witness ==
  /\ lastOp \in KeyOps
  /\ \E i \in 1..Len(requests) :
       requests[i].type = "select" /\ requests[i].key # selected

\* C15 (as claimed): whenever a node is selected, the copy shortcut sends the
\* node's display name to the clipboard and nothing else, whatever the
\* projection holds.
C15_CopyNeedsNoProjection ==
  (lastOp = "copy" /\ selected # Null /\ selected \in DOMAIN elements) =>
    /\ ~threw
    /\ requests = <<WriteTextRequest(elements[selected].name)>>

\* The largest level among the rows of fe, 0 when there is none.
MaxLevel(fe) ==
  IF fe = <<>> THEN 0
  ELSE CHOOSE l \in { fe[i].level : i \in 1..Len(fe) } :
         \A i \in 1..Len(fe) : fe[i].level <= l

\* C17: after a flatten pass flatKeys and flatElements have the same length,
\* flatKeys[i] is flatElements[i].key, flatElements[i].element is the store's
\* node for that key, and maxDepth is the largest level of a row, 0 for the
\* empty projection, which is the projection of a null or absent root.
C17_ProjectionParallel ==
  phase = "mounted" =>
    /\ Len(flatKeys) = Len(flatElements)
    /\ \A i \in 1..Len(flatElements) :
         /\ flatKeys[i] = flatElements[i].key
         /\ flatElements[i].key \in DOMAIN elements
         /\ flatElements[i].element = elements[flatElements[i].key]
    /\ maxDepth = MaxLevel(flatElements)
    /\ (root = Null \/ root \notin DOMAIN elements) <=> flatElements = <<>>

\* C17 witness: a projection whose deepest row is not its last one.
C17_Witness ==
  /\ phase = "mounted"
  /\ Len(flatElements) >= 3
  /\ maxDepth >= 2
  /\ flatElements[Len(flatElements)].level < maxDepth

\* C18 (as claimed): every select request of a key input names a row of the
\* current projection.
C18_SelectStaysInProjection ==
  lastOp \in KeyOps =>
    \A i \in 1..Len(requests) :
      requests[i].type = "select" => IndexOf(flatKeys, requests[i].key) >= 1

\* C19: a key input has at most one effect: one select request, one
\* setExpanded request or one clipboard write.
C19_AtMostOneEffect ==
  lastOp \in KeyOps =>
    /\ Len(requests) <= 1
    /\ \A i \in 1..Len(requests) :
         requests[i].type \in {"select", "setExpanded", "writeText"}

\* C19 witness: ArrowLeft on an expanded row below the root, where a collapse
\* and a jump to the parent are both possible, has sent one request.
C19_Witness ==
  /\ Navigable
  /\ lastOp = "ArrowLeft"
  /\ elements[selected].expanded
  /\ flatElements[SelectedIndex].level >= 2
  /\ Len(requests) = 1

\* The level-1 row is selected and is not expanded.
AtRest ==
  /\ phase = "mounted"
  /\ Navigable
  /\ flatElements[SelectedIndex].level = 1
  /\ ~elements[selected].expanded

\* C20: under a host that applies every request and re-flattens, from any
\* state whose selection is a row of the projection, repeated ArrowLeft leads to
\* the state where the level-1 row is selected and not expanded; from then on
\* that state is kept and ArrowLeft sends no request.
C20_LeftReachesRest ==
  /\ (phase = "mounted" /\ Navigable) ~> AtRest
  /\ [](AtRest => [](AtRest /\ requests = <<>>))

\* C20 witness: ArrowLeft has been pressed at rest on a root that has a child,
\* and nothing was sent.
C20_Witness ==
  /\ AtRest
  /\ lastOp = "ArrowLeft"
  /\ requests = <<>>
  /\ elements[selected].children # <<>>

\* C14: for every row, isQueryMatch is true and the query is the highlight
\* text exactly when the row's identity is in the match set of a defined
\* search result; otherwise the highlight text is null and nothing is
\* highlighted on the name or on an attribute.  The name and the attributes
\* named id or addr are the only ones handed the highlight text, and an empty
\* or null query highlights nothing.
C14_HighlightOnlyMatches ==
  lastOp = "render" =>
    \A i \in 1..Len(rows) :
      LET row == rows[i]
          isMatch == searchResults.defined /\ row.id \in searchResults.matches
          passed == IF isMatch THEN searchResults.query ELSE NullString
          nothing == passed = NullString \/ passed = <<>>
      IN /\ row.isQueryMatch = isMatch
         /\ row.matchingSearchQuery = passed
         /\ row.view.name.highlighted = passed
         /\ nothing => ~row.view.name.highlight
         /\ \A j \in 1..Len(row.view.attributes) :
              LET attr == row.view.attributes[j]
              IN /\ attr.name \in {"id", "addr"} => attr.value.highlighted = passed
                 /\ attr.name \notin {"id", "addr"} =>
                      /\ attr.value.highlighted = <<>>
                      /\ ~attr.value.highlight
                 /\ nothing => ~attr.value.highlight

\* C14 witness: a render under a search with two rows; the matching row has
\* its name and its id attribute highlighted and its class attribute, which
\* holds the query too, left plain; the other row is no match.
C14_Witness ==
  /\ lastOp = "render"
  /\ \E i, k \in 1..Len(rows) :
       /\ rows[i].isQueryMatch
       /\ rows[i].view.name.highlight
       /\ \E j \in 1..Len(rows[i].view.attributes) :
            /\ rows[i].view.attributes[j].name = "id"
            /\ rows[i].view.attributes[j].value.highlight
       /\ \E j \in 1..Len(rows[i].view.attributes) :
            /\ rows[i].view.attributes[j].name = "class"
            /\ includes(toLowerCase(rows[i].view.attributes[j].value.content),
                        toLowerCase(searchResults.query))
            /\ ~rows[i].view.attributes[j].value.highlight
       /\ ~rows[k].isQueryMatch
       /\ rows[k].matchingSearchQuery = NullString

\* C16: a setExpanded request of a key input comes from ArrowLeft or
\* ArrowRight, is not deep and names the selection; one of the context menu's
\* Expand / Collapse entry is not deep and names the row; a deep request comes
\* only from a double click or a click on the disclosure arrow of the row it
\* names, with the alt key held.
C16_DeepOnlyFromRow ==
  \A i \in 1..Len(requests) :
    requests[i].type = "setExpanded" =>
      /\ lastOp \in {"ArrowLeft", "ArrowRight", "menuToggle", "doubleClick",
                     "arrowClick"}
      /\ lastOp \in KeyOps =>
           /\ ~requests[i].deep
           /\ requests[i].key = selected
      /\ lastOp = "menuToggle" =>
           /\ ~requests[i].deep
           /\ requests[i].key = rowEvent.id
      /\ requests[i].deep =>
           /\ lastOp \in {"doubleClick", "arrowClick"}
           /\ rowEvent.altKey
           /\ requests[i].key = rowEvent.id

\* C16 witness: the Expand / Collapse entry was clicked on a row that is not
\* the selected one.
C16_Witness ==
  /\ lastOp = "menuToggle"
  /\ rowEvent.id # selected
  /\ requests = <<ExpandRequest(rowEvent.id, FALSE)>>

====
